---- MODULE Spec2Model ----
(***************************************************************************)
(* Model of src/app/pages/index.tsx: the App component (the interaction    *)
(* controller: data, dataType, prompt, the event handlers and the render   *)
(* step) and the default codec of MetaNode.codec.                          *)
(*                                                                         *)
(* JavaScript values are records [t, s, n]: t is the type tag, s a text    *)
(* (a sequence of one-character strings) and n a natural number.  The     *)
(* value universe is undefined, null, naturals, strings and one-key        *)
(* objects {k: n}; JSONstringify and JSONparse are exact on it.            *)
(***************************************************************************)
EXTENDS Integers, Sequences, FiniteSets, Bags, TLC

\* ------------------------------------------------------------ bounds ----
MaxInflight == 2      \* resolve calls that may be outstanding at once

\* --------------------------------------------------------- JS values ----
Undefined == [t |-> "undefined", s |-> <<>>, n |-> 0]
JNull == [t |-> "null", s |-> <<>>, n |-> 0]
JNum(n) == [t |-> "number", s |-> <<>>, n |-> n]
JStr(s) == [t |-> "string", s |-> s, n |-> 0]
JObj(k, n) == [t |-> "object", s |-> k, n |-> n]

Digit == <<"0", "1", "2", "3", "4", "5", "6", "7", "8", "9">>

IsDigit(c) == \E i \in 1..10 : Digit[i] = c

DigitVal(c) == (CHOOSE i \in 1..10 : Digit[i] = c) - 1

RECURSIVE NatToText(_)
NatToText(n) ==
  IF n < 10 THEN <<Digit[n + 1]>>
  ELSE NatToText(n \div 10) \o <<Digit[(n % 10) + 1]>>

RECURSIVE TextToNat(_)
TextToNat(s) ==
  IF Len(s) = 0 THEN 0
  ELSE 10 * TextToNat(SubSeq(s, 1, Len(s) - 1)) + DigitVal(s[Len(s)])

\* String(v): the coercion applied by FormData.append and by JSON.parse
ToText(v) ==
  CASE v.t = "string" -> v.s
    [] v.t = "number" -> NatToText(v.n)
    [] v.t = "null" -> <<"n", "u", "l", "l">>
    [] v.t = "undefined" -> <<"u", "n", "d", "e", "f", "i", "n", "e", "d">>
    [] OTHER -> <<"[", "o", "b", "j", "e", "c", "t", " ", "O", "b", "j", "e", "c", "t", "]">>

\* ------------------------------------------------------ JSON.stringify --
RECURSIVE Escape(_)
Escape(s) ==
  IF Len(s) = 0 THEN <<>>
  ELSE IF Head(s) \in {"\"", "\\"} THEN <<"\\", Head(s)>> \o Escape(Tail(s))
  ELSE <<Head(s)>> \o Escape(Tail(s))

Quote(s) == <<"\"">> \o Escape(s) \o <<"\"">>

JSONstringify(v) ==
  CASE v.t = "undefined" -> Undefined
    [] v.t = "null" -> JStr(<<"n", "u", "l", "l">>)
    [] v.t = "number" -> JStr(NatToText(v.n))
    [] v.t = "string" -> JStr(Quote(v.s))
    [] OTHER -> JStr(<<"{">> \o Quote(v.s) \o <<":">> \o NatToText(v.n) \o <<"}">>)

\* ---------------------------------------------------------- JSON.parse --
Ok(v) == [ok |-> TRUE, val |-> v, err |-> ""]
Fail(e) == [ok |-> FALSE, val |-> Undefined, err |-> e]

RECURSIVE Trim(_)
Trim(s) ==
  IF Len(s) = 0 THEN s
  ELSE IF Head(s) = " " THEN Trim(Tail(s))
  ELSE IF s[Len(s)] = " " THEN Trim(SubSeq(s, 1, Len(s) - 1))
  ELSE s

IsNumberText(s) ==
  /\ Len(s) > 0
  /\ \A i \in 1..Len(s) : IsDigit(s[i])
  /\ (Len(s) > 1 => s[1] # "0")

\* the characters between the quotes of a JSON string literal: every quote
\* and backslash is escaped by a backslash
RECURSIVE IsEscaped(_)
IsEscaped(s) ==
  IF Len(s) = 0 THEN TRUE
  ELSE IF Head(s) = "\\"
    THEN Len(s) >= 2 /\ s[2] \in {"\"", "\\"} /\ IsEscaped(SubSeq(s, 3, Len(s)))
  ELSE Head(s) # "\"" /\ IsEscaped(Tail(s))

RECURSIVE Unescape(_)
Unescape(s) ==
  IF Len(s) = 0 THEN <<>>
  ELSE IF Head(s) = "\\" THEN <<s[2]>> \o Unescape(SubSeq(s, 3, Len(s)))
  ELSE <<Head(s)>> \o Unescape(Tail(s))

IsStringText(s) ==
  /\ Len(s) >= 2
  /\ s[1] = "\""
  /\ s[Len(s)] = "\""
  /\ IsEscaped(SubSeq(s, 2, Len(s) - 1))

StringOf(s) == Unescape(SubSeq(s, 2, Len(s) - 1))

\* position of the colon that ends the key of a one-key object text
ColonAt(s) ==
  {i \in 3..(Len(s) - 2) : s[i] = ":" /\ IsStringText(SubSeq(s, 2, i - 1))
                            /\ IsNumberText(SubSeq(s, i + 1, Len(s) - 1))}

IsObjectText(s) ==
  /\ Len(s) >= 6
  /\ s[1] = "{"
  /\ s[Len(s)] = "}"
  /\ ColonAt(s) # {}

ObjectOf(s) ==
  LET i == CHOOSE j \in ColonAt(s) : TRUE
  IN JObj(StringOf(SubSeq(s, 2, i - 1)), TextToNat(SubSeq(s, i + 1, Len(s) - 1)))

ParseText(s) ==
  LET w == Trim(s)
  IN CASE w = <<"n", "u", "l", "l">> -> Ok(JNull)
       [] IsNumberText(w) -> Ok(JNum(TextToNat(w)))
       [] IsStringText(w) -> Ok(JStr(StringOf(w)))
       [] IsObjectText(w) -> Ok(ObjectOf(w))
       [] OTHER -> Fail("SyntaxError")

\* JSON.parse(x) coerces x to a string first
JSONparse(v) == ParseText(ToText(v))

\* ------------------------------------------------------------ codecs ----
\* MetaNode.codec's default argument: { encode: JSON.stringify, decode: JSON.parse }
DefaultEncode(v) == JSONstringify(v)
DefaultDecode(t) == JSONparse(t)

\* a codec for already-textual types
IdentityEncode(v) == v
IdentityDecode(t) == Ok(t)

Encode(codec, v) == IF codec = "json" THEN DefaultEncode(v) ELSE IdentityEncode(v)
Decode(codec, t) == IF codec = "json" THEN DefaultDecode(t) ELSE IdentityDecode(t)

\* ---------------------------------------------------------- registry ----
\* '@/app/nodes': the declared nodes, in insertion order
DataIds == <<"Number", "Json", "Text">>

dataNodes ==
  [x \in {"Number", "Json", "Text"} |->
    CASE x = "Number" -> [spec |-> "Number", codec |-> "json",
                          hasExample |-> TRUE, example |-> JNum(21)]
      [] x = "Json" -> [spec |-> "Json", codec |-> "json",
                        hasExample |-> TRUE, example |-> JObj(<<"a">>, 1)]
      [] OTHER -> [spec |-> "Text", codec |-> "identity",
                   hasExample |-> FALSE, example |-> Undefined]]

PromptIds == <<"InputText", "EditJson">>

promptNodes ==
  [x \in {"InputText", "EditJson"} |->
    IF x = "InputText"
    THEN [spec |-> "InputText", inputs |-> <<>>, output |-> "Text"]
    ELSE [spec |-> "EditJson", inputs |-> <<<<"value", "Json">>, <<"hint", "Text">>>>,
          output |-> "Json"]]

ResolveIds == <<"double", "merge", "now">>

resolveNodes ==
  [x \in {"double", "merge", "now"} |->
    CASE x = "double" -> [spec |-> "double", inputs |-> <<<<"input", "Number">>>>,
                          output |-> "Number"]
      [] x = "merge" -> [spec |-> "merge",
                         inputs |-> <<<<"left", "Json">>, <<"right", "Json">>>>,
                         output |-> "Json"]
      [] OTHER -> [spec |-> "now", inputs |-> <<>>, output |-> "Text"]]

Range(f) == {f[i] : i \in DOMAIN f}

\* ------------------------------------------------------------ inputs ----
\* texts the editor widget emits
EditorTexts == {<<"2", "1">>, <<"o", "o", "p", "s">>}

\* decoded values a prompt handler hands to submit
SubmitValues == {JNum(42), JStr(<<"h", "i">>)}

\* the values of SubmitValues that prompt p's output data type admits: a
\* prompt whose output node is textual submits strings
OutputValues(p) ==
  IF dataNodes[promptNodes[p].output].codec = "identity"
  THEN {v \in SubmitValues : v.t = "string"}
  ELSE SubmitValues

\* response bodies of the resolver endpoint
ResponseTexts == {<<"\"", "4", "2", "\"">>, <<"4", "2">>, <<"<", "h", "t", "m", "l", ">">>}

\* ------------------------------------------------------------- state ----
NoPrompt == "undefined"

VARIABLES
  data,       \* React state `data`: the text buffer
  dataType,   \* React state `dataType`: id of the selected data node, or ""
  prompt,     \* React state `prompt`: id of the active prompt node, or undefined
  view,       \* dataNodeView of the last render
  callbacks,  \* prompt ids for which a render has handed out a submit closure
  inflight,   \* bag of the resolve onClick invocations suspended at an await
  event,      \* the handler that ran last, with its inputs
  refs,       \* the MetaNode builders held by the declaring code, by reference
  bevent      \* the MetaNode method that ran last, with its inputs

vars == <<data, dataType, prompt, view, callbacks, inflight, event, refs, bevent>>

avars == <<data, dataType, prompt, view, callbacks, inflight, event>>

bvars == <<refs, bevent>>

ui == <<data, dataType, prompt>>

\* op: the handler; id: the node it is about; val: its argument (the response
\* body for a settled req.json()); body: the form fields of a request;
\* raced: for a resolve call, whether a completion of an overlapping call has
\* changed the state since it was issued; during: `prompt` when the handler ran
Ev(op, id, val, raced, body) ==
  [op |-> op, id |-> id, val |-> val, raced |-> raced, body |-> body,
   during |-> prompt]

\* ------------------------------------------------------------ render ----
NoView == [kind |-> "none", spec |-> "", val |-> Undefined, msg |-> "", inputs |-> {}]

\* Object.keys(inputs)[0] used as a computed property name
FirstInputKey(inputs) == IF Len(inputs) > 0 THEN inputs[1][1] ELSE "undefined"

PromptView(d, p) ==
  [kind |-> "prompt", spec |-> p, val |-> Undefined, msg |-> "",
   inputs |-> {<<FirstInputKey(promptNodes[p].inputs), d>>}]

\* DataView without the try/catch around decode
DataViewUncaught(d, t) ==
  LET dataNode == dataNodes[t]
      dec == Decode(dataNode.codec, d)
  IN IF dec.ok
     THEN [kind |-> "data", spec |-> dataNode.spec, val |-> dec.val, msg |-> "",
           inputs |-> {}]
     ELSE [kind |-> "crash", spec |-> "", val |-> Undefined, msg |-> dec.err,
           inputs |-> {}]

\* DataView handing the raw buffer to view when decode fails
DataViewRendersRaw(d, t) ==
  LET dataNode == dataNodes[t]
      dec == Decode(dataNode.codec, d)
  IN [kind |-> "data", spec |-> dataNode.spec,
      val |-> IF dec.ok THEN dec.val ELSE d, msg |-> "", inputs |-> {}]

DataView(d, t) ==
  LET dataNode == dataNodes[t]
      dec == Decode(dataNode.codec, d)
  IN IF dec.ok
     THEN [kind |-> "data", spec |-> dataNode.spec, val |-> dec.val, msg |-> "",
           inputs |-> {}]
     ELSE [kind |-> "error", spec |-> dataNode.spec, val |-> Undefined,
           msg |-> dec.err, inputs |-> {}]

\* DataNodeView testing dataNode before prompt
DataNodeViewDataFirst(d, t, p) ==
  IF t \in DOMAIN dataNodes THEN DataView(d, t)
  ELSE IF p # NoPrompt THEN PromptView(d, p)
  ELSE NoView

DataNodeView(d, t, p) ==
  IF p # NoPrompt THEN PromptView(d, p)
  ELSE IF t \in DOMAIN dataNodes THEN DataView(d, t)
  ELSE NoView

\* the component function runs again after every state update
Render(d, t, p) ==
  /\ view' = DataNodeView(d, t, p)
  /\ callbacks' = IF p # NoPrompt THEN callbacks \cup {p} ELSE callbacks

\* ------------------------------------------------------------ MetaNode --
\* the value of `t`: spec, kind and the names of the attributes spread into it
NoBuilder == [spec |-> "", kind |-> "none", attrs |-> {}]

Refs == {"a", "b"}

Specs == {"x"}

BEv(op, attr, src, dst, node) ==
  [op |-> op, attr |-> attr, src |-> src, dst |-> dst, node |-> node]

Init ==
  /\ refs = [r \in Refs |-> NoBuilder]
  /\ bevent = BEv("init", "", "", "", NoBuilder)
  /\ data = JStr(<<>>)
  /\ dataType = ""
  /\ prompt = NoPrompt
  /\ view = NoView
  /\ callbacks = {}
  /\ inflight = EmptyBag
  /\ event = [op |-> "init", id |-> "", val |-> Undefined, raced |-> FALSE,
              body |-> <<>>, during |-> NoPrompt]

\* ---------------------------------------------------------- handlers ----
\* SelectType that also resets the buffer
SelectTypeClearsData(x) ==
  /\ prompt' = NoPrompt
  /\ dataType' = x
  /\ data' = JStr(<<>>)
  /\ Render(data', dataType', prompt')
  /\ UNCHANGED bvars
  /\ event' = Ev("select", x, Undefined, FALSE, <<>>)
  /\ UNCHANGED inflight

\* SelectType without setPrompt(undefined)
SelectTypeKeepsPrompt(x) ==
  /\ dataType' = x
  /\ UNCHANGED <<data, prompt>>
  /\ Render(data', dataType', prompt')
  /\ UNCHANGED bvars
  /\ event' = Ev("select", x, Undefined, FALSE, <<>>)
  /\ UNCHANGED inflight

\* <select onChange>
SelectType(x) ==
  /\ prompt' = NoPrompt
  /\ dataType' = x
  /\ data' = data
  /\ Render(data', dataType', prompt')
  /\ UNCHANGED bvars
  /\ event' = Ev("select", x, Undefined, FALSE, <<>>)
  /\ UNCHANGED inflight

\* <JsonEditor onValueChange>
EditText(value) ==
  /\ data' = JStr(value)
  /\ UNCHANGED <<dataType, prompt>>
  /\ Render(data', dataType', prompt')
  /\ UNCHANGED bvars
  /\ event' = Ev("edit", "", JStr(value), FALSE, <<>>)
  /\ UNCHANGED inflight

\* the data nodes that get a Load Example button
ExampleIds == {x \in Range(DataIds) : dataNodes[x].hasExample}

\* LoadExample storing the example value itself instead of its encoding
LoadExampleRaw(x) ==
  LET node == dataNodes[x]
  IN /\ prompt' = NoPrompt
     /\ dataType' = node.spec
     /\ data' = node.example
     /\ Render(data', dataType', prompt')
     /\ UNCHANGED bvars
     /\ event' = Ev("example", x, Undefined, FALSE, <<>>)
     /\ UNCHANGED inflight

LoadExample(x) ==
  LET node == dataNodes[x]
  IN /\ prompt' = NoPrompt
     /\ dataType' = node.spec
     /\ data' = Encode(node.codec, node.example)
     /\ Render(data', dataType', prompt')
     /\ UNCHANGED bvars
     /\ event' = Ev("example", x, Undefined, FALSE, <<>>)
     /\ UNCHANGED inflight

\* ClickPrompt that also selects the prompt's output type
ClickPromptSelectsOutput(p) ==
  /\ prompt' = promptNodes[p].spec
  /\ dataType' = promptNodes[p].output
  /\ UNCHANGED data
  /\ Render(data', dataType', prompt')
  /\ UNCHANGED bvars
  /\ event' = Ev("prompt", p, Undefined, FALSE, <<>>)
  /\ UNCHANGED inflight

\* prompt button onClick
ClickPrompt(p) ==
  /\ prompt' = promptNodes[p].spec
  /\ UNCHANGED <<data, dataType>>
  /\ Render(data', dataType', prompt')
  /\ UNCHANGED bvars
  /\ event' = Ev("prompt", p, Undefined, FALSE, <<>>)
  /\ UNCHANGED inflight

\* Submit storing the output value itself instead of its encoding
SubmitRaw(p, output) ==
  /\ p \in callbacks
  /\ dataType' = promptNodes[p].output
  /\ data' = output
  /\ prompt' = NoPrompt
  /\ Render(data', dataType', prompt')
  /\ UNCHANGED bvars
  /\ event' = Ev("submit", p, output, FALSE, <<>>)
  /\ UNCHANGED inflight

\* the submit closure of a render in which `prompt` was p, called with output
Submit(p, output) ==
  /\ p \in callbacks
  /\ dataType' = promptNodes[p].output
  /\ data' = Encode(dataNodes[promptNodes[p].output].codec, output)
  /\ prompt' = NoPrompt
  /\ Render(data', dataType', prompt')
  /\ UNCHANGED bvars
  /\ event' = Ev("submit", p, output, FALSE, <<>>)
  /\ UNCHANGED inflight

\* ------------------------------------------------- resolve onClick ------
Call(pc, r, raced) == [pc |-> pc, proc |-> r, raced |-> raced]

\* FormData as in the commented-out line: proc.inputs[i].codec.encode(data)
FormDataEncoded(inputs, d) ==
  [i \in DOMAIN inputs |->
    <<inputs[i][1], ToText(Encode(dataNodes[inputs[i][2]].codec, d))>>]

\* for (const i in proc.inputs) formData.append(i, data)
FormData(inputs, d) == [i \in DOMAIN inputs |-> <<inputs[i][1], ToText(d)>>]

\* the other outstanding calls, marked when this completion changed the state
Others(call, changed) ==
  LET rest == inflight (-) SetToBag({call})
      mark(c) == IF changed THEN Call(c.pc, c.proc, TRUE) ELSE c
      marked == {mark(c) : c \in BagToSet(rest)}
  IN [m \in marked |->
       (IF m \in BagToSet(rest) THEN rest[m] ELSE 0)
       + (IF changed /\ Call(m.pc, m.proc, FALSE) \in BagToSet(rest) /\ m.raced
          THEN rest[Call(m.pc, m.proc, FALSE)] ELSE 0)]

\* up to the first await: build the form and issue the request
ClickResolve(r) ==
  /\ BagCardinality(inflight) < MaxInflight
  /\ inflight' = inflight (+) SetToBag({Call("fetch", r, FALSE)})
  /\ UNCHANGED <<data, dataType, prompt, view, callbacks>>
  /\ UNCHANGED bvars
  /\ event' = Ev("request", r, Undefined, FALSE,
                 FormData(resolveNodes[r].inputs, data))

\* await fetch(...) rejects: the async handler ends with a rejected promise
FetchReject(call) ==
  /\ BagIn(call, inflight)
  /\ call.pc = "fetch"
  /\ inflight' = Others(call, FALSE)
  /\ UNCHANGED <<data, dataType, prompt, view, callbacks>>
  /\ UNCHANGED bvars
  /\ event' = Ev("rejected", call.proc, Undefined, call.raced, <<>>)

\* await fetch(...) yields a response; the handler suspends at req.json()
FetchResolve(call) ==
  /\ BagIn(call, inflight)
  /\ call.pc = "fetch"
  /\ inflight' = Others(call, FALSE) (+) SetToBag({Call("json", call.proc, call.raced)})
  /\ UNCHANGED <<data, dataType, prompt, view, callbacks>>
  /\ UNCHANGED bvars
  /\ event' = Ev("response", call.proc, Undefined, call.raced, <<>>)

\* JsonReject falling through to the setters with an empty result
JsonRejectAdoptsEmpty(call, body) ==
  /\ BagIn(call, inflight)
  /\ call.pc = "json"
  /\ ~ParseText(body).ok
  /\ prompt' = NoPrompt
  /\ data' = JStr(<<>>)
  /\ dataType' = resolveNodes[call.proc].output
  /\ Render(data', dataType', prompt')
  /\ inflight' = Others(call, ui' # ui)
  /\ UNCHANGED bvars
  /\ event' = Ev("rejected", call.proc, JStr(body), call.raced, <<>>)

\* await req.json() rejects: the body is not JSON
JsonReject(call, body) ==
  /\ BagIn(call, inflight)
  /\ call.pc = "json"
  /\ ~ParseText(body).ok
  /\ inflight' = Others(call, FALSE)
  /\ UNCHANGED <<data, dataType, prompt, view, callbacks>>
  /\ UNCHANGED bvars
  /\ event' = Ev("rejected", call.proc, JStr(body), call.raced, <<>>)

\* JsonResolve passing res through the output codec's encode
JsonResolveReencoded(call, body) ==
  LET res == ParseText(body)
      out == resolveNodes[call.proc].output
  IN /\ BagIn(call, inflight)
     /\ call.pc = "json"
     /\ res.ok
     /\ prompt' = NoPrompt
     /\ data' = Encode(dataNodes[out].codec, res.val)
     /\ dataType' = out
     /\ Render(data', dataType', prompt')
     /\ inflight' = Others(call, ui' # ui)
     /\ UNCHANGED bvars
     /\ event' = Ev("resolved", call.proc, JStr(body), call.raced, <<>>)

\* await req.json() yields res; the three setters run and the view re-renders
JsonResolve(call, body) ==
  LET res == ParseText(body)
  IN /\ BagIn(call, inflight)
     /\ call.pc = "json"
     /\ res.ok
     /\ prompt' = NoPrompt
     /\ data' = res.val
     /\ dataType' = resolveNodes[call.proc].output
     /\ Render(data', dataType', prompt')
     /\ inflight' = Others(call, ui' # ui)
     /\ UNCHANGED bvars
     /\ event' = Ev("resolved", call.proc, JStr(body), call.raced, <<>>)

\* ---------------------------------------------------- MetaNode methods --
\* new MetaNode({ spec, kind })
Create(dst, spec, kind) ==
  /\ refs' = [refs EXCEPT ![dst] = [spec |-> spec, kind |-> kind, attrs |-> {}]]
  /\ bevent' = BEv("create", kind, "", dst, NoBuilder)
  /\ UNCHANGED avars

createData(dst, spec) == Create(dst, spec, "data")

createProcess(dst, spec) == Create(dst, spec, "process")

\* { ...this.t, attr }
With(t, attr) == [t EXCEPT !.attrs = @ \cup {attr}]

\* Attach assigning the attribute to this.t and returning this
AttachInPlace(src, dst, attr) ==
  /\ refs[src] # NoBuilder
  /\ refs' = [r \in Refs |-> IF r \in {src, dst} THEN With(refs[src], attr) ELSE refs[r]]
  /\ bevent' = BEv("attach", attr, src, dst, NoBuilder)
  /\ UNCHANGED avars

\* refs[dst] = refs[src].attr(...): return new MetaNode({ ...this.t, attr })
Attach(src, dst, attr) ==
  /\ refs[src] # NoBuilder
  /\ refs' = [refs EXCEPT ![dst] = With(refs[src], attr)]
  /\ bevent' = BEv("attach", attr, src, dst, NoBuilder)
  /\ UNCHANGED avars

attachMeta(src, dst) == Attach(src, dst, "meta")

attachCodec(src, dst) == Attach(src, dst, "codec")

attachView(src, dst) == Attach(src, dst, "view")

attachInputs(src, dst) == Attach(src, dst, "inputs")

attachOutput(src, dst) == Attach(src, dst, "output")

attachPrompt(src, dst) == Attach(src, dst, "prompt")

attachResolve(src, dst) == Attach(src, dst, "resolve")

\* the `this: { t: MetaNodeType<T> }` constraint of build: t has the
\* attributes of one of the three node types
MetaNodeDataType(t) == {"meta", "codec", "view"} \subseteq t.attrs

MetaNodePromptType(t) == {"meta", "inputs", "output", "prompt"} \subseteq t.attrs

MetaNodeResolveType(t) == {"meta", "inputs", "output", "resolve"} \subseteq t.attrs

MetaNodeType(t) ==
  /\ t # NoBuilder
  /\ MetaNodeDataType(t) \/ MetaNodePromptType(t) \/ MetaNodeResolveType(t)

\* build(): return this.t
build(src) ==
  /\ MetaNodeType(refs[src])
  /\ bevent' = BEv("build", "", src, "", refs[src])
  /\ UNCHANGED refs
  /\ UNCHANGED avars

BuilderNext ==
  \/ \E dst \in Refs, spec \in Specs : createData(dst, spec)
  \/ \E dst \in Refs, spec \in Specs : createProcess(dst, spec)
  \/ \E src \in Refs, dst \in Refs : attachMeta(src, dst)
  \/ \E src \in Refs, dst \in Refs : attachCodec(src, dst)
  \/ \E src \in Refs, dst \in Refs : attachView(src, dst)
  \/ \E src \in Refs, dst \in Refs : attachInputs(src, dst)
  \/ \E src \in Refs, dst \in Refs : attachOutput(src, dst)
  \/ \E src \in Refs, dst \in Refs : attachPrompt(src, dst)
  \/ \E src \in Refs, dst \in Refs : attachResolve(src, dst)
  \/ \E src \in Refs : build(src)

BuilderSpec == Init /\ [][BuilderNext]_vars

Calls == [pc : {"fetch", "json"}, proc : Range(ResolveIds), raced : BOOLEAN]

Next ==
  \/ \E x \in Range(DataIds) : SelectType(x)
  \/ \E value \in EditorTexts : EditText(value)
  \/ \E x \in ExampleIds : LoadExample(x)
  \/ \E p \in Range(PromptIds) : ClickPrompt(p)
  \/ \E p \in Range(PromptIds) : \E output \in OutputValues(p) : Submit(p, output)
  \/ \E r \in Range(ResolveIds) : ClickResolve(r)
  \/ \E call \in Calls : FetchReject(call)
  \/ \E call \in Calls : FetchResolve(call)
  \/ \E call \in Calls, body \in ResponseTexts : JsonReject(call, body)
  \/ \E call \in Calls, body \in ResponseTexts : JsonResolve(call, body)

Spec == Init /\ [][Next]_vars

\* ------------------------------------------------------------ claims ----
UserOps == {"select", "edit", "example", "prompt", "submit"}

OutputCodec(node) == dataNodes[node.output].codec

\* C1: when a resolve call fails (fetch rejects, or the response body is not
\* JSON), the failing step leaves data, dataType and prompt as they were.
C1_ResolveFailureKeepsState ==
  [][event'.op = "rejected" => UNCHANGED ui]_vars

C1_Witness ==
  /\ event.op = "rejected"
  /\ event.val = JStr(<<"<", "h", "t", "m", "l", ">">>)
  /\ dataType = "Number"
  /\ data = JStr(<<"2", "1">>)

\* C2: of two resolve calls that were outstanding together, at most one
\* changes the state: the completion of a call that overlapped a call whose
\* completion already changed the state changes nothing.
C2_OneResolutionTakesEffect ==
  [][(event'.op = "resolved" /\ event'.raced) => UNCHANGED ui]_vars

\* C3: while a resolve call is outstanding, no select, edit, load example,
\* prompt click or submit changes data, dataType or prompt.
C3_NoChangeWhileOutstanding ==
  [][(inflight # EmptyBag /\ event'.op \in UserOps) => UNCHANGED ui]_vars

\* C4: submit(v) called by the active prompt p ends in Viewing(p.output, e)
\* with e the encoding of v by the codec of p's output node, and no prompt.
C4_SubmitFromPrompt ==
  [][(event'.op = "submit" /\ event'.during = event'.id) =>
       /\ dataType' = promptNodes[event'.id].output
       /\ data' = Encode(OutputCodec(promptNodes[event'.id]), event'.val)
       /\ prompt' = NoPrompt]_vars

C4_Witness ==
  /\ event.op = "submit"
  /\ event.during = "EditJson"
  /\ event.id = "EditJson"
  /\ event.val = JStr(<<"h", "i">>)
  /\ dataType = "Json"
  /\ data = JStr(<<"\"", "h", "i", "\"">>)
  /\ prompt = NoPrompt

\* C5: a submit closure called when its prompt is no longer the active one
\* changes nothing.
C5_StaleSubmitIsNoOp ==
  [][(event'.op = "submit" /\ event'.during # event'.id) => UNCHANGED ui]_vars

\* C6: a resolve call that succeeds with JSON value v ends in
\* Viewing(r.output, v) with no prompt; data is v itself.
C6_ResolveSuccess ==
  [][event'.op = "resolved" =>
       /\ data' = ParseText(event'.val.s).val
       /\ dataType' = resolveNodes[event'.id].output
       /\ prompt' = NoPrompt]_vars

C6_Witness ==
  /\ event.op = "resolved"
  /\ event.id = "double"
  /\ event.val = JStr(<<"\"", "4", "2", "\"">>)
  /\ dataType = "Number"
  /\ data = JStr(<<"4", "2">>)
  /\ prompt = NoPrompt

C8_DecodeFailureIsolation ==
  (prompt = NoPrompt /\ dataType \in DOMAIN dataNodes
     /\ ~Decode(dataNodes[dataType].codec, data).ok) =>
    /\ view.kind = "error"
    /\ view.spec = dataType
    /\ view.msg = Decode(dataNodes[dataType].codec, data).err
    /\ view.msg # ""

C8_Witness ==
  /\ prompt = NoPrompt
  /\ dataType = "Number"
  /\ data = JStr(<<"o", "o", "p", "s">>)
  /\ view.kind = "error"
  /\ view.spec = "Number"
  /\ view.msg = "SyntaxError"

\* C9: load example is offered only for data nodes whose meta has an example,
\* and it sets dataType to the node, data to the encoding of the example by
\* the node's codec, and clears the prompt.
C9_LoadExample ==
  [][event'.op = "example" =>
       /\ dataNodes[event'.id].hasExample
       /\ dataType' = event'.id
       /\ data' = Encode(dataNodes[event'.id].codec, dataNodes[event'.id].example)
       /\ prompt' = NoPrompt]_vars

C9_Witness ==
  /\ event.op = "example"
  /\ event.id = "Json"
  /\ event.during # NoPrompt
  /\ dataType = "Json"
  /\ data = JStr(<<"{", "\"", "a", "\"", ":", "1", "}">>)
  /\ prompt = NoPrompt

\* C10: right after a resolve call fails, the view shows an error that names
\* the operation and carries the failure's message.
C10_FailureSurfaced ==
  [][event'.op = "rejected" =>
       (view'.kind = "error" /\ view'.spec = event'.id /\ view'.msg # "")]_vars

\* C11: select type X sets dataType to X and leaves data as it was, also when
\* X's codec cannot decode it.
C11_SelectTypeKeepsText ==
  [][event'.op = "select" => (dataType' = event'.id /\ data' = data)]_vars

C11_Witness ==
  /\ event.op = "select"
  /\ event.id = "Number"
  /\ dataType = "Number"
  /\ data = JStr(<<"o", "o", "p", "s">>)
  /\ ~Decode(dataNodes["Number"].codec, data).ok

\* C12: with an active prompt the view is that prompt's view only (nothing
\* decoded, no data node rendered); a data node view or a decode error view
\* exists only when no prompt is active.
C12_PromptViewExclusive ==
  /\ prompt # NoPrompt =>
       (view.kind = "prompt" /\ view.spec = prompt /\ view.val = Undefined
          /\ view.msg = "")
  /\ view.kind \in {"data", "error"} => prompt = NoPrompt

C12_Witness ==
  /\ prompt = "EditJson"
  /\ dataType = "Number"
  /\ data = JStr(<<"o", "o", "p", "s">>)
  /\ view.kind = "prompt"

\* C13: a data node's view function is called only with the value its codec
\* decoded from data, and only when that decode succeeded.
C13_RenderOnlyDecoded ==
  view.kind = "data" =>
    /\ dataType \in DOMAIN dataNodes
    /\ Decode(dataNodes[dataType].codec, data).ok
    /\ view.val = Decode(dataNodes[dataType].codec, data).val

C13_Witness ==
  /\ view.kind = "data"
  /\ dataType = "Number"
  /\ data = JStr(<<"2", "1">>)
  /\ view.val = JNum(21)

\* C17: invoking resolve operation r while the buffer holds text t issues one
\* request for r whose form has one field per declared input of r, in order,
\* each holding t; no declared input, no field.
C17_ResolvePayload ==
  [][(event'.op = "request" /\ data.t = "string") =>
       LET inputs == resolveNodes[event'.id].inputs
       IN /\ inflight' = inflight (+) SetToBag({Call("fetch", event'.id, FALSE)})
          /\ Len(event'.body) = Len(inputs)
          /\ \A i \in DOMAIN inputs : event'.body[i] = <<inputs[i][1], data.s>>]_vars

C17_Witness ==
  /\ event.op = "request"
  /\ event.id = "merge"
  /\ data = JStr(<<"2", "1">>)
  /\ event.body = <<<<"left", <<"2", "1">>>>, <<"right", <<"2", "1">>>>>>

\* C18: the inputs handed to a prompt have only declared input names of the
\* prompt as keys; with at least one declared input they are exactly
\* { first declared name: data }.
C18_PromptInputsDeclared ==
  view.kind = "prompt" =>
    LET inputs == promptNodes[view.spec].inputs
        names == {inputs[i][1] : i \in DOMAIN inputs}
    IN /\ \A kv \in view.inputs : kv[1] \in names
       /\ names # {} => view.inputs = {<<inputs[1][1], data>>}

\* C19: clicking prompt p makes p the active prompt, the only one shown, and
\* leaves dataType and data as they were.
C19_InvokePrompt ==
  [][event'.op = "prompt" =>
       /\ prompt' = event'.id
       /\ prompt' \in Range(PromptIds)
       /\ UNCHANGED <<dataType, data>>
       /\ view'.kind = "prompt"
       /\ view'.spec = event'.id]_vars

C19_Witness ==
  /\ event.op = "prompt"
  /\ event.during = NoPrompt
  /\ event.id = "EditJson"
  /\ prompt = "EditJson"
  /\ dataType = "Number"
  /\ data = JStr(<<"2", "1">>)

\* C20: data is a string in every reachable state.
C20_DataIsString == data.t = "string"

\* attributes a finalized node of each entry variant must carry
Required(kind) ==
  IF kind = "data" THEN {"meta", "codec", "view"} ELSE {"meta", "inputs", "output"}

Handlers == {"prompt", "resolve"}

\* C14: an attribute step leaves the builder it was called on, and every
\* other builder, as it was; the builder it returns has the attributes of
\* the one it was called on plus the attribute set.
C14_BuilderImmutable ==
  [][bevent'.op = "attach" =>
       /\ \A r \in Refs \ {bevent'.dst} : refs'[r] = refs[r]
       /\ refs'[bevent'.dst].attrs = refs[bevent'.src].attrs \cup {bevent'.attr}
       /\ refs'[bevent'.dst].spec = refs[bevent'.src].spec
       /\ refs'[bevent'.dst].kind = refs[bevent'.src].kind]_vars

C14_Witness ==
  /\ bevent.op = "attach"
  /\ bevent.src = "a"
  /\ bevent.dst = "b"
  /\ bevent.attr = "codec"
  /\ refs["a"] = [spec |-> "x", kind |-> "data", attrs |-> {"meta"}]
  /\ refs["b"] = [spec |-> "x", kind |-> "data", attrs |-> {"meta", "codec"}]

\* C15: a node that build returned has every required attribute of the
\* variant its builder was begun as (data: meta, codec, view; process: meta,
\* inputs, output and a handler).
C15_FinalizeNeedsVariantAttributes ==
  bevent.op = "build" =>
    /\ Required(bevent.node.kind) \subseteq bevent.node.attrs
    /\ bevent.node.kind = "process" => bevent.node.attrs \cap Handlers # {}

\* C16: a finalized process node does not carry both prompt and resolve, and
\* prompt or resolve is attached only to a process builder that has inputs
\* and output.
C16_ExactlyOneHandler ==
  [][/\ (bevent'.op = "build" /\ bevent'.node.kind = "process") =>
          ~(Handlers \subseteq bevent'.node.attrs)
     /\ (bevent'.op = "attach" /\ bevent'.attr \in Handlers
           /\ refs[bevent'.src].kind = "process") =>
          {"inputs", "output"} \subseteq refs[bevent'.src].attrs]_vars

====
